---- MODULE Spec2Model ----
(***************************************************************************)
(* A model of the asynchronous logger of opencoff/go-logger (logger.go):   *)
(* the root logger with its bounded event queue and writer goroutine       *)
(* (qrunner), sub-loggers sharing that queue, Close, EnableRotation, the   *)
(* rotation timers and the buffer pool.  Every goroutine is a thread with  *)
(* a program counter; one action is one atomic step of the Go code.        *)
(***************************************************************************)
EXTENDS Integers, Sequences, FiniteSets, TLC

(* ---------------------------------------------------------------- bounds *)
\* capacity of the event queue: make(chan qev, runtime.NumCPU())
NumCPU == 2
\* calls of the logger's API the application makes in all
MaxOps == 4
\* rotation timers that may expire
MaxFires == 2
\* records the application goroutine formats when the filter is explored
MaxRecs == 3
MaxGen == 3

(* ----------------------------------------------------- program constants *)
LOG_NONE == 0
LOG_DEBUG == 1
LOG_INFO == 2
LOG_WARN == 3
LOG_ERR == 4
LOG_CRIT == 5
LOG_EMERG == 6
_MAX_LOGFILES == 7

Lstdflag == {"Ldate", "Ltime"}

Priorities == LOG_NONE..LOG_EMERG
\* the levels of Debug, Info, Warn, Error, Crit
LeveledLevels == LOG_DEBUG..LOG_CRIT

(* ------------------------------------------------------------- universe *)
Loggers == {"root", "s1", "s2"}
Subs == {"s1", "s2"}
\* application goroutines; "t1" also runs the constructor
Threads == {"t1", "t2"}
\* the writer goroutine
QR == "qr"
AllThreads == Threads \cup {QR}
Bufs == 1..(NumCPU + Cardinality(AllThreads) + 1)
\* the application goroutines that use the logger: two with a caller's
\* writer, one (beside the timer goroutines) with a backing file
Users(o) == IF o = "writer" THEN Threads ELSE {"t1"}

VARIABLES
    live,        \* the logger instances created so far
    prio,        \* xLogger.prio
    prefix,      \* xLogger.prefix, a sequence of tokens
    flag,        \* xLogger.flag, a set of flag names
    relstart,    \* xLogger.relstart (atomic.Bool)
    rot_n,       \* xLogger.rot_n
    out,         \* xLogger.out: "file", "writer", "stderr" or "nil"
    closed,      \* outch.closed (atomic.Bool)
    chClosed,    \* whether close(outch.logch) has run
    logch,       \* outch.logch: the buffered channel
    wgDone,      \* outch.wg has dropped to zero
    pool,        \* outch.pool: the buffers it holds
    mem,         \* contents of every buffer
    pc,          \* where each goroutine is
    loc,         \* each goroutine's locals
    ncall,       \* records each goroutine has formatted
    cur,         \* qrunner's event e
    armed,       \* timers pending (time.AfterFunc)
    tsend,       \* qtimer goroutines past the closed check
    tpanic,      \* a qtimer goroutine panicked
    nfired,      \* timers expired so far
    nops,        \* API calls made so far
    fileOpen,    \* the backing file's descriptor is open
    stderrOpen,  \* os.Stderr is open
    writerOpen,  \* the caller's writer is open
    writers,     \* goroutines inside l.out.Write
    wlog,        \* history of the effects on the destinations
    enq,         \* history of the events enqueued, in order
    lost,        \* event ids whose Write hit a closed stream
    nclosech,    \* times close(logch) has run
    nfclose,     \* times the backing file has been closed
    cdone,       \* a Close on the root has returned
    subClosed,   \* sub-loggers on which Close has returned
    made,        \* how each logger was created: priority and prefix
                 \* arguments, parent
    gen,         \* the rotated files name.<i>.gz: existence and contents
    tmp,         \* the temporary file of rotateLog exists
    fcont,       \* contents of the backing file and of os.Stderr
    fpos         \* file offset of each of the two descriptors

cfgv == <<live, prio, prefix, flag, relstart, rot_n, out>>
chv == <<closed, chClosed, logch, wgDone>>
bufv == <<pool, mem>>
thrv == <<pc, loc, ncall, cur>>
tmrv == <<armed, tsend, tpanic, nfired, nops>>
fsv == <<gen, tmp, fcont, fpos>>
iov == <<fileOpen, stderrOpen, writerOpen, writers, wlog, lost, nfclose,
         fsv>>
ghv == <<enq, nclosech, cdone, subClosed, made>>
vars == <<cfgv, chv, bufv, thrv, tmrv, iov, ghv>>

(* -------------------------------------------------------------- helpers *)
Min(S) == CHOOSE x \in S : \A y \in S : x <= y
Max(S) == CHOOSE x \in S : \A y \in S : y <= x

\* the payload of a buffer that holds nothing (b[:0])
Empty == [kind |-> "empty", t |-> "", k |-> 0, g |-> "", lv |-> 0,
          hdr |-> "", pfx |-> <<>>, ac |-> FALSE, sc |-> FALSE]

\* the marker enq keeps for a timer event (qev{_QEV_TIMER, nil})
TimerRec == [Empty EXCEPT !.kind = "timer"]

\* the effect of a rotation, as the history wlog records it
RotRec(res) == [Empty EXCEPT !.kind = res]

\* the descriptors that are files: the backing file and os.Stderr
Files == {"file", "stderr"}

\* the indices i of the rotated files name.<i>.gz
GenIdx == 0.._MAX_LOGFILES

\* a rotated file that does not exist
NoGen == [ex |-> FALSE, c |-> <<>>]

\* the rotated file name.<i>.gz left by an earlier run of the program
OldGen(i) == [ex |-> TRUE, c |-> <<0 - (i + 1)>>]

NoEv == [ty |-> "none", buf |-> 0, id |-> 0]

NoLoc == [g |-> "", lv |-> 0, buf |-> 0, cont |-> "user", max |-> 0, fl |-> {},
          hms |-> <<>>, sb |-> 0]

\* states in which an API call of an application goroutine has just returned
RetStates == {"filtered", "dropped", "sent", "cret", "cnop",
              "subcret", "eret", "erok", "newok", "stdret", "stdreused"}

\* goroutine t is about to make an API call
CanCall(t) == t \in Threads /\ pc[t] = "idle" /\ nops < MaxOps

\* faulty variant: defaultFlag that leaves Ldate and Ltime beside Lreltime
defaultFlagKeepsDate(fl) ==
    LET f1 == IF fl = {} THEN Lstdflag ELSE fl
        f3 == IF "Lfullpath" \in f1 THEN f1 \cup {"Lfileloc"} ELSE f1
    IN  f3 \ {"lSyslog", "lPrefix", "lClose"}

defaultFlag(fl) ==
    LET f1 == IF fl = {} THEN Lstdflag ELSE fl
        f2 == IF "Lreltime" \in f1 THEN f1 \ {"Ldate", "Ltime"} ELSE f1
        f3 == IF "Lfullpath" \in f2 THEN f2 \cup {"Lfileloc"} ELSE f2
    IN  f3 \ {"lSyslog", "lPrefix", "lClose"}

\* faulty variant: newLogger that keeps the priority it is given
newLoggerKeepsPrio(o, pr, pref, fl) ==
    [prio   |-> pr,
     prefix |-> IF Len(pref) > 0 THEN <<"[">> \o pref \o <<"] ">> ELSE <<>>,
     flag   |-> IF Len(pref) > 0 THEN fl \cup {"lPrefix"} ELSE fl,
     out    |-> o]

\* the fields newLogger gives the root
newLogger(o, pr, pref, fl) ==
    [prio   |-> IF pr <= 0 THEN LOG_WARN ELSE pr,
     prefix |-> IF Len(pref) > 0 THEN <<"[">> \o pref \o <<"] ">> ELSE <<>>,
     flag   |-> IF Len(pref) > 0 THEN fl \cup {"lPrefix"} ELSE fl,
     out    |-> o]

\* New(out, ...) and NewFilelog(file, ...)
Construct(kind, pr, pref, fl) ==
    IF kind = "file"
    THEN newLogger("file", pr, pref, defaultFlag(fl) \cup {"lClose"})
    ELSE newLogger("writer", pr, pref, defaultFlag(defaultFlag(fl)))

barePrefix(s) ==
    LET s1 == IF Head(s) = "[" THEN Tail(s) ELSE s
        idx == {i \in 2..Len(s1) : s1[i] = "] "}
    IN  IF idx # {} THEN SubSeq(s1, 1, Max(idx) - 1) ELSE s1

\* faulty variant: the level is compared with the root's priority
LoggableByRoot(g, p) == prio["root"] > LOG_NONE /\ p >= prio["root"]

Loggable(g, p) == prio[g] > LOG_NONE /\ p >= prio[g]

\* faulty variant: a goroutine that never sees the closed flag
closedLoadStale == FALSE

\* l.ch.closed.Load()
closedLoad == closed

\* faulty variant: Close that treats every logger as the root
isSublogNever(g) == FALSE

\* (l.flag & lSublog) != 0
isSublog(g) == "lSublog" \in flag[g]

\* faulty variant: Close that does not wait for the writer goroutine
wgWaitSkipped == TRUE

\* l.ch.wg.Wait() returns
wgWait == wgDone

\* faulty variant: a queue that hands out its newest event first
chanRecvNewest(q) == [e |-> q[Len(q)], rest |-> SubSeq(q, 1, Len(q) - 1)]

\* the receive of "for e := range l.ch.logch" from a non-empty queue
chanRecv(q) == [e |-> Head(q), rest |-> Tail(q)]

\* timestamp(out, t, fl): whether anything is printed
timestamp(fl) ==
    IF fl \cap {"Ldate", "Ltime", "Lmicroseconds"} = {} THEN "none" ELSE "abs"

\* formatHeader: the kind of header, and relstart afterwards
formatHeader(g) ==
    IF "Lreltime" \notin flag[g]
    THEN [hdr |-> timestamp(flag[g]), rs |-> relstart[g]]
    ELSE IF ~relstart[g]
         THEN [hdr |-> timestamp(flag[g] \cup {"Ldate", "Ltime"}), rs |-> TRUE]
         ELSE [hdr |-> "rel", rs |-> TRUE]

\* the record ofmt builds for goroutine t
ofmt(t, g, kind, lv) ==
    [kind |-> kind, t |-> t, k |-> ncall[t] + 1, g |-> g, lv |-> lv,
     hdr  |-> IF "lSyslog" \in flag[g] THEN "none" ELSE formatHeader(g).hdr,
     pfx  |-> IF "lPrefix" \in flag[g] THEN prefix[g] ELSE <<>>,
     ac   |-> cdone,
     sc   |-> g \in subClosed]

ofmtRelstart(g) ==
    IF "lSyslog" \in flag[g] THEN relstart
    ELSE [relstart EXCEPT ![g] = formatHeader(g).rs]

\* buffers some goroutine or queued event still refers to
Referenced ==
    ({loc[t].buf : t \in AllThreads} \cup {loc[t].sb : t \in AllThreads}
        \cup {logch[i].buf : i \in 1..Len(logch)} \cup {cur.buf}) \ {0}

Free == Bufs \ (pool \cup Referenced)

\* getBuf: sync.Pool hands out a pooled buffer, or a new one when it holds
\* none (Put stores b[:0], so a pooled buffer reads like a new one)
getBuf ==
    IF pool # {} THEN {Min(pool)}
    ELSE IF Free # {} THEN {Min(Free)} ELSE {}

\* where a goroutine continues when its leveled call returns
After(cont, outcome) ==
    CASE cont = "user"  -> outcome
      [] cont = "fatal" -> "fclose"
      [] cont = "enrot" -> "er_rd"
      [] cont = "err1"  -> "err2call"
      [] cont = "err2"  -> "clrflag"
      [] cont = "std"   -> "stdret"

(* ----------------------------------------------------------------- Init *)
InitWith(kinds, prios, prefs, flags, olds) ==
    \E kind \in kinds, pr \in prios, pref \in prefs, fl \in flags,
       old \in olds :
        LET r == Construct(kind, pr, pref, fl) IN
        /\ live = {"root"}
        /\ prio = [g \in Loggers |-> IF g = "root" THEN r.prio ELSE 0]
        /\ prefix = [g \in Loggers |-> IF g = "root" THEN r.prefix ELSE <<>>]
        /\ flag = [g \in Loggers |-> IF g = "root" THEN r.flag ELSE {}]
        /\ relstart = [g \in Loggers |-> FALSE]
        /\ rot_n = [g \in Loggers |-> 0]
        /\ out = [g \in Loggers |-> IF g = "root" THEN r.out ELSE "nil"]
        /\ closed = FALSE
        /\ chClosed = FALSE
        /\ logch = <<>>
        /\ wgDone = FALSE
        /\ pool = {}
        /\ mem = [b \in Bufs |-> Empty]
        /\ pc = [t \in AllThreads |->
                    IF t = "t1" THEN "new" ELSE IF t = QR THEN "off" ELSE "nolog"]
        /\ loc = [t \in AllThreads |-> NoLoc]
        /\ ncall = [t \in AllThreads |-> 0]
        /\ cur = NoEv
        /\ armed = 0
        /\ tsend = 0
        /\ tpanic = FALSE
        /\ nfired = 0
        /\ nops = 0
        /\ fileOpen = (kind = "file")
        /\ stderrOpen = TRUE
        /\ writerOpen = TRUE
        /\ writers = {}
        /\ wlog = <<>>
        /\ enq = <<>>
        /\ lost = {}
        /\ nclosech = 0
        /\ nfclose = 0
        /\ cdone = FALSE
        /\ subClosed = {}
        /\ gen = [i \in GenIdx |-> IF i \in old THEN OldGen(i) ELSE NoGen]
        /\ tmp = FALSE
        /\ fcont = [h \in Files |-> <<>>]
        /\ fpos = [h \in Files |-> 0]
        /\ made = [g \in Loggers |->
                    IF g = "root"
                    THEN [arg |-> pr, by |-> "", pref |-> pref, fl |-> fl]
                    ELSE [arg |-> 0, by |-> "", pref |-> <<>>, fl |-> {}]]

(* ------------------------------------------------------ the constructor *)
\* newLogger: ll.dprintf(0, LOG_INFO, "Logger at level %s started.") up to
\* the moment l.out.Write is entered
NewLoggerDprintf ==
    /\ pc["t1"] = "new"
    /\ \E b \in getBuf :
        /\ mem' = [mem EXCEPT ![b] = ofmt("t1", "root", "startup", LOG_INFO)]
        /\ pool' = pool \ {b}
        /\ loc' = [loc EXCEPT !["t1"] = [NoLoc EXCEPT !.g = "root", !.buf = b]]
    /\ relstart' = ofmtRelstart("root")
    /\ ncall' = [ncall EXCEPT !["t1"] = @ + 1]
    /\ writers' = writers \cup {"t1"}
    /\ pc' = [pc EXCEPT !["t1"] = "nwrite"]
    /\ UNCHANGED <<live, prio, prefix, flag, rot_n, out, chv, cur, tmrv,
                   fileOpen, stderrOpen, wlog, lost, nfclose,
                   writerOpen, fsv, ghv>>

\* (*os.File).Write of record x at offset p of a file holding c (the
\* backing file is opened without O_APPEND)
WriteAt(c, p, x) ==
    SubSeq(c, 1, p) \o <<x>> \o SubSeq(c, p + 2, Len(c))

\* the write to the destination handle h of the record in buffer b, made for
\* event id (0: a record that bypasses the queue)
WriteTo(h, id, b) ==
    /\ IF \/ h = "file" /\ ~fileOpen
          \/ h = "stderr" /\ ~stderrOpen
          \/ h = "writer" /\ ~writerOpen
       THEN /\ wlog' = wlog
            /\ lost' = lost \cup {id}
            /\ UNCHANGED <<fcont, fpos>>
       ELSE /\ wlog' = Append(wlog, [to |-> h, id |-> id, rec |-> mem[b]])
            /\ lost' = lost
            /\ IF h \in Files
               THEN /\ fcont' = [fcont EXCEPT ![h] = WriteAt(@, fpos[h], Len(wlog) + 1)]
                    /\ fpos' = [fpos EXCEPT ![h] = @ + 1]
               ELSE UNCHANGED <<fcont, fpos>>
    /\ UNCHANGED <<gen, tmp>>

\* putBuf: l.ch.pool.Put(b[:0])
putBuf(b) ==
    /\ pool' = pool \cup {b}
    /\ mem' = [mem EXCEPT ![b] = Empty]

\* newLogger: the startup record is written, the buffer returned, the
\* writer goroutine started and the logger handed to the caller
NewLoggerStart ==
    /\ pc["t1"] = "nwrite"
    /\ WriteTo(out["root"], 0, loc["t1"].buf)
    /\ putBuf(loc["t1"].buf)
    /\ writers' = writers \ {"t1"}
    /\ loc' = [loc EXCEPT !["t1"] = NoLoc]
    /\ pc' = [t \in AllThreads |->
                IF t = QR THEN "recv"
                ELSE IF t \in Users(out["root"]) THEN "idle" ELSE pc[t]]
    /\ UNCHANGED <<cfgv, chv, ncall, cur, tmrv, fileOpen, stderrOpen,
                   nfclose, writerOpen, ghv>>

(* ----------------------------------------------------------- sub-loggers *)
\* xLogger.New(prefix, prio) called on logger g, creating sub-logger s
NewSub(t, g, s, pref, pr) ==
    /\ CanCall(t)
    /\ g \in live /\ s \in Subs \ live
    /\ nops' = nops + 1
    /\ IF Len(pref) > 0 /\ "lPrefix" \in flag[g] /\ prefix[g] = <<>>
       THEN \* barePrefix reads s[0] of an empty string: index out of range
            /\ pc' = [pc EXCEPT ![t] = "panic_new"]
            /\ loc' = [loc EXCEPT ![t] = [NoLoc EXCEPT !.g = g]]
            /\ UNCHANGED <<live, prio, flag, out, prefix, made>>
       ELSE /\ live' = live \cup {s}
            /\ prio' = [prio EXCEPT ![s] = IF pr <= 0 THEN prio[g] ELSE pr]
            /\ flag' = [flag EXCEPT ![s] = flag[g] \cup {"lSublog"}]
            /\ out' = [out EXCEPT ![s] = out[g]]
            /\ prefix' = [prefix EXCEPT ![s] =
                    IF Len(pref) > 0
                    THEN IF "lPrefix" \in flag[g]
                         THEN <<"[">> \o barePrefix(prefix[g]) \o <<".">>
                                     \o pref \o <<"] ">>
                         ELSE <<"[">> \o pref \o <<"] ">>
                    ELSE <<>>]
            /\ made' = [made EXCEPT ![s] = [arg |-> pr, by |-> g, pref |-> pref,
                                              fl |-> {}]]
            /\ pc' = [pc EXCEPT ![t] = "newok"]
            /\ loc' = [loc EXCEPT ![t] = [NoLoc EXCEPT !.g = s]]
    /\ UNCHANGED <<relstart, rot_n, chv, bufv, ncall, cur, armed, tsend,
                   tpanic, nfired, iov, enq, nclosech, cdone, subClosed>>

\* an API call returns to the application
Return(t) ==
    /\ t \in Threads /\ pc[t] \in RetStates
    /\ pc' = [pc EXCEPT ![t] = "idle"]
    /\ loc' = [loc EXCEPT ![t] = NoLoc]
    /\ UNCHANGED <<cfgv, chv, bufv, ncall, cur, tmrv, iov, ghv>>

(* --------------------------------------------------------- leveled calls *)
\* Crit/Error/Warn/Info/Debug on logger g at level lv by goroutine t:
\* Loggable, then Output's ofmt; the goroutine stands before qwrite
DoLeveled(t, g, lv, cont, mx, hms) ==
    IF Loggable(g, lv)
    THEN /\ \E b \in getBuf :
            /\ mem' = [mem EXCEPT ![b] = ofmt(t, g, "log", lv)]
            /\ pool' = pool \ {b}
            /\ loc' = [loc EXCEPT ![t] = [g |-> g, lv |-> lv, buf |-> b,
                                          cont |-> cont, max |-> mx, fl |-> {},
                                          hms |-> hms, sb |-> 0]]
         /\ relstart' = ofmtRelstart(g)
         /\ ncall' = [ncall EXCEPT ![t] = @ + 1]
         /\ pc' = [pc EXCEPT ![t] = "qwrite"]
    ELSE /\ loc' = [loc EXCEPT ![t] = [g |-> g, lv |-> lv, buf |-> 0,
                                       cont |-> cont, max |-> mx, fl |-> {},
                                       hms |-> hms, sb |-> 0]]
         /\ pc' = [pc EXCEPT ![t] = After(cont, "filtered")]
         /\ UNCHANGED <<mem, pool, relstart, ncall>>

Leveled(t, g, lv) ==
    /\ CanCall(t)
    /\ g \in live
    /\ nops' = nops + 1
    /\ DoLeveled(t, g, lv, "user", 0, <<>>)
    /\ UNCHANGED <<live, prio, prefix, flag, rot_n, out, chv, cur, armed,
                   tsend, tpanic, nfired, iov, ghv>>

\* qwrite: if !l.ch.closed.Load()
QwriteCheck(t) ==
    /\ pc[t] = "qwrite"
    /\ IF closedLoad
       THEN /\ pc' = [pc EXCEPT ![t] = After(loc[t].cont, "dropped")]
            /\ loc' = [loc EXCEPT ![t].buf = 0]
            /\ mem' = [mem EXCEPT ![loc[t].buf] = Empty]
       ELSE /\ pc' = [pc EXCEPT ![t] = "send"]
            /\ UNCHANGED <<loc, mem>>
    /\ UNCHANGED <<cfgv, chv, pool, ncall, cur, tmrv, iov, ghv>>

\* qwrite: l.ch.logch <- qev{_QEV_LOG, b}; a send on a closed channel panics,
\* a send on a full one blocks
QwriteSend(t) ==
    /\ pc[t] = "send"
    /\ IF chClosed
       THEN /\ pc' = [pc EXCEPT ![t] = "panic_send"]
            /\ wgDone' = IF t = QR THEN TRUE ELSE wgDone
            /\ UNCHANGED <<logch, enq, loc>>
       ELSE /\ Len(logch) < NumCPU
            /\ logch' = Append(logch, [ty |-> "LOG", buf |-> loc[t].buf,
                                       id |-> Len(enq) + 1])
            /\ enq' = Append(enq, mem[loc[t].buf])
            /\ pc' = [pc EXCEPT ![t] = After(loc[t].cont, "sent")]
            /\ loc' = [loc EXCEPT ![t].buf = 0]
            /\ UNCHANGED wgDone
    /\ UNCHANGED <<cfgv, closed, chClosed, bufv, ncall, cur, tmrv, iov,
                   nclosech, cdone, subClosed, made>>

(* ------------------------------------------------------ StdLogger adapter *)
\* the bytes the standard library's Logger formats into its buffer
stdfmt(t, g) ==
    [Empty EXCEPT !.kind = "std", !.t = t, !.k = ncall[t] + 1, !.g = g]

\* xLogger.Write(b), called by the standard library's Logger made by
\* StdLogger(): l.qwrite(b) with the caller's slice b itself (no getBuf, no
\* copy, no priority test); the goroutine stands before qwrite and keeps b
StdWrite(t, g) ==
    /\ CanCall(t)
    /\ g \in live
    /\ nops' = nops + 1
    /\ Free # {}
    /\ LET b == Min(Free) IN
        /\ mem' = [mem EXCEPT ![b] = stdfmt(t, g)]
        /\ loc' = [loc EXCEPT ![t] = [NoLoc EXCEPT !.g = g, !.buf = b,
                                                  !.sb = b, !.cont = "std"]]
    /\ ncall' = [ncall EXCEPT ![t] = @ + 1]
    /\ pc' = [pc EXCEPT ![t] = "qwrite"]
    /\ UNCHANGED <<live, prio, prefix, flag, relstart, rot_n, out, chv, pool,
                   cur, armed, tsend, tpanic, nfired, iov, ghv>>

\* Write has returned len(b), nil: the caller formats its next message into
\* the slice it passed
StdReuse(t) ==
    /\ t \in Threads /\ pc[t] = "stdret"
    /\ mem' = [mem EXCEPT ![loc[t].sb] = stdfmt(t, loc[t].g)]
    /\ ncall' = [ncall EXCEPT ![t] = @ + 1]
    /\ pc' = [pc EXCEPT ![t] = "stdreused"]
    /\ UNCHANGED <<cfgv, chv, pool, loc, cur, tmrv, iov, ghv>>

(* ----------------------------------------------------------------- Close *)
\* where Close returns to: the application, or Panic's panic(s)
CloseRet(cont, state) == IF cont = "fatal" THEN "fpanic" ELSE state

\* Close on logger g begins: the sub-logger test, then
\* l.ch.closed.Swap(true)
CloseBegin(t, g, cont) ==
    /\ IF isSublog(g)
       THEN /\ pc' = [pc EXCEPT ![t] = CloseRet(cont, "subcret")]
            /\ subClosed' = subClosed \cup {g}
            /\ UNCHANGED <<closed, cdone>>
       ELSE /\ closed' = TRUE
            /\ pc' = [pc EXCEPT ![t] =
                        IF closed THEN CloseRet(cont, "cnop") ELSE "closech"]
            /\ cdone' = (cdone \/ closed)
            /\ UNCHANGED subClosed
    /\ loc' = [loc EXCEPT ![t] = [NoLoc EXCEPT !.g = g, !.cont = cont]]

\* the application calls Close on logger g
CloseCall(t, g) ==
    /\ CanCall(t)
    /\ g \in live
    /\ nops' = nops + 1
    /\ CloseBegin(t, g, "user")
    /\ UNCHANGED <<cfgv, chClosed, logch, wgDone, bufv, ncall, cur, armed,
                   tsend, tpanic, nfired, iov, enq, nclosech, made>>

\* Close: close(l.ch.logch); closing a closed channel panics
CloseChan(t) ==
    /\ pc[t] = "closech"
    /\ IF chClosed
       THEN /\ pc' = [pc EXCEPT ![t] = "panic_close"]
            /\ UNCHANGED <<chClosed, nclosech>>
       ELSE /\ chClosed' = TRUE
            /\ nclosech' = nclosech + 1
            /\ pc' = [pc EXCEPT ![t] = "wait"]
    /\ UNCHANGED <<cfgv, closed, logch, wgDone, bufv, loc, ncall, cur, tmrv,
                   iov, enq, cdone, subClosed, made>>

\* Close: l.ch.wg.Wait(), then dprintf(1, LOG_INFO, "xLogger at level %s
\* closed.") up to the moment l.out.Write is entered
CloseWait(t) ==
    /\ pc[t] = "wait"
    /\ wgWait
    /\ \E b \in getBuf :
        /\ mem' = [mem EXCEPT ![b] = ofmt(t, loc[t].g, "closed", LOG_INFO)]
        /\ pool' = pool \ {b}
        /\ loc' = [loc EXCEPT ![t].buf = b]
    /\ relstart' = ofmtRelstart(loc[t].g)
    /\ ncall' = [ncall EXCEPT ![t] = @ + 1]
    /\ writers' = writers \cup {t}
    /\ pc' = [pc EXCEPT ![t] = "cwrite"]
    /\ UNCHANGED <<live, prio, prefix, flag, rot_n, out, chv, cur, tmrv,
                   fileOpen, stderrOpen, wlog, lost, nfclose,
                   writerOpen, fsv, ghv>>

\* Close: the final record is written and its buffer returned
CloseWrite(t) ==
    /\ pc[t] = "cwrite"
    /\ WriteTo(out[loc[t].g], 0, loc[t].buf)
    /\ putBuf(loc[t].buf)
    /\ writers' = writers \ {t}
    /\ loc' = [loc EXCEPT ![t].buf = 0]
    /\ pc' = [pc EXCEPT ![t] = "cfclose"]
    /\ UNCHANGED <<cfgv, chv, ncall, cur, tmrv, fileOpen, stderrOpen,
                   nfclose, writerOpen, ghv>>

\* closing the destination handle h (fd.Close())
CloseHandle(h) ==
    /\ fileOpen' = IF h = "file" THEN FALSE ELSE fileOpen
    /\ stderrOpen' = IF h = "stderr" THEN FALSE ELSE stderrOpen
    /\ writerOpen' = IF h = "writer" THEN FALSE ELSE writerOpen
    /\ nfclose' = IF h = "file" /\ fileOpen THEN nfclose + 1 ELSE nfclose

\* Close: if (l.flag & lClose) != 0 and l.out is an io.WriteCloser, close it
CloseFile(t) ==
    /\ pc[t] = "cfclose"
    /\ IF "lClose" \in flag[loc[t].g]
          /\ out[loc[t].g] \in {"file", "stderr", "writer"}
       THEN CloseHandle(out[loc[t].g])
       ELSE UNCHANGED <<fileOpen, stderrOpen, nfclose, writerOpen>>
    /\ pc' = [pc EXCEPT ![t] = CloseRet(loc[t].cont, "cret")]
    /\ cdone' = TRUE
    /\ UNCHANGED <<cfgv, chv, bufv, loc, ncall, cur, tmrv, writers, wlog,
                   lost, fsv, enq, nclosech, subClosed, made>>

(* ------------------------------------------------------- Panic and Fatal *)
\* Fatal(format, ...) = Panic(format, ...) on logger g: the backtrace and
\* the message go into one record, l.Output(2, LOG_EMERG, "%s:\n%s", s, bt),
\* without a Loggable test; the goroutine stands before qwrite
Fatal(t, g) ==
    /\ CanCall(t)
    /\ g \in live
    /\ nops' = nops + 1
    /\ \E b \in getBuf :
        /\ mem' = [mem EXCEPT ![b] = ofmt(t, g, "fatal", LOG_EMERG)]
        /\ pool' = pool \ {b}
        /\ loc' = [loc EXCEPT ![t] = [NoLoc EXCEPT !.g = g, !.lv = LOG_EMERG,
                                                  !.buf = b, !.cont = "fatal"]]
    /\ relstart' = ofmtRelstart(g)
    /\ ncall' = [ncall EXCEPT ![t] = @ + 1]
    /\ pc' = [pc EXCEPT ![t] = "qwrite"]
    /\ UNCHANGED <<live, prio, prefix, flag, rot_n, out, chv, cur, armed,
                   tsend, tpanic, nfired, iov, ghv>>

\* Panic: l.Close(); when it returns the goroutine runs panic(s)
FatalClose(t) ==
    /\ pc[t] = "fclose"
    /\ CloseBegin(t, loc[t].g, "fatal")
    /\ UNCHANGED <<cfgv, chClosed, logch, wgDone, bufv, ncall, cur, tmrv,
                   iov, enq, nclosech, made>>

(* -------------------------------------------------------- EnableRotation *)
\* goroutines that hold l.mu of logger g (inside EnableRotation)
MuHeld(g) ==
    \E t \in Threads :
        /\ loc[t].g = g
        /\ \/ pc[t] \in {"er_rd", "er_wr"}
           \/ pc[t] \in {"qwrite", "send"} /\ loc[t].cont = "enrot"

\* faulty variant: a range check that lets hour 24 through
validTimeLoose(hh, mm, ss) ==
    ~(hh < 0 \/ hh > 24 \/ mm < 0 \/ mm > 59 \/ ss < 0 \/ ss > 59)

\* EnableRotation: the test of hh, mm and ss
validTime(hh, mm, ss) ==
    ~(hh < 0 \/ hh > 23 \/ mm < 0 \/ mm > 59 \/ ss < 0 \/ ss > 59)

\* EnableRotation(hh, mm, ss, max) on logger g: the two checks, then
\* l.Info("logger: Enabled daily log-rotation ...")
EnableRotation(t, g, hh, mm, ss, mx) ==
    /\ CanCall(t)
    /\ g \in live
    /\ ~MuHeld(g)
    /\ nops' = nops + 1
    /\ IF "lClose" \notin flag[g] \/ ~validTime(hh, mm, ss)
       THEN /\ pc' = [pc EXCEPT ![t] = "eret"]
            /\ loc' = [loc EXCEPT ![t] = [NoLoc EXCEPT !.g = g,
                                                      !.hms = <<hh, mm, ss>>]]
            /\ UNCHANGED <<mem, pool, relstart, ncall>>
       ELSE DoLeveled(t, g, LOG_INFO, "enrot",
                      IF mx <= 0 THEN _MAX_LOGFILES ELSE mx, <<hh, mm, ss>>)
    /\ UNCHANGED <<live, prio, prefix, flag, rot_n, out, chv, cur, armed,
                   tsend, tpanic, nfired, iov, ghv>>

\* EnableRotation: l.flag |= lRotate reads the flag word ...
EnableRotationRead(t) ==
    /\ pc[t] = "er_rd"
    /\ loc' = [loc EXCEPT ![t].fl = flag[loc[t].g]]
    /\ pc' = [pc EXCEPT ![t] = "er_wr"]
    /\ UNCHANGED <<cfgv, chv, bufv, ncall, cur, tmrv, iov, ghv>>

\* ... and writes it back; then l.rot_n = max and time.AfterFunc(d, l.qtimer)
EnableRotationArm(t) ==
    /\ pc[t] = "er_wr"
    /\ flag' = [flag EXCEPT ![loc[t].g] = loc[t].fl \cup {"lRotate"}]
    /\ rot_n' = [rot_n EXCEPT ![loc[t].g] = loc[t].max]
    /\ armed' = armed + 1
    /\ pc' = [pc EXCEPT ![t] = "erok"]
    /\ loc' = [loc EXCEPT ![t] = [NoLoc EXCEPT !.g = loc[t].g]]
    /\ UNCHANGED <<live, prio, prefix, relstart, out, chv, bufv, ncall, cur,
                   tsend, tpanic, nfired, nops, iov, ghv>>

(* ---------------------------------------------------------------- timers *)
\* a timer expires and runs qtimer in its own goroutine:
\* if !l.ch.closed.Load()
TimerFire ==
    /\ armed > 0
    /\ nfired < MaxFires
    /\ armed' = armed - 1
    /\ nfired' = nfired + 1
    /\ tsend' = IF closedLoad THEN tsend ELSE tsend + 1
    /\ UNCHANGED <<cfgv, chv, bufv, thrv, tpanic, nops, iov, ghv>>

\* qtimer: l.ch.logch <- qev{_QEV_TIMER, nil}
TimerSend ==
    /\ tsend > 0
    /\ tsend' = tsend - 1
    /\ IF chClosed
       THEN /\ tpanic' = TRUE
            /\ UNCHANGED <<logch, enq>>
       ELSE /\ Len(logch) < NumCPU
            /\ logch' = Append(logch, [ty |-> "TIMER", buf |-> 0,
                                       id |-> Len(enq) + 1])
            /\ enq' = Append(enq, TimerRec)
            /\ UNCHANGED tpanic
    /\ UNCHANGED <<cfgv, closed, chClosed, wgDone, bufv, thrv, armed, nfired,
                   nops, iov, nclosech, cdone, subClosed, made>>

(* --------------------------------------------------------------- qrunner *)
\* for e := range l.ch.logch: the next event is received (and, for a log
\* event, l.out.Write entered), or the loop ends and wg.Done runs
QrunnerRecv ==
    /\ pc[QR] = "recv"
    /\ IF logch # <<>>
       THEN /\ logch' = chanRecv(logch).rest
            /\ IF chanRecv(logch).e.ty = "LOG"
               THEN /\ cur' = chanRecv(logch).e
                    /\ writers' = writers \cup {QR}
                    /\ pc' = [pc EXCEPT ![QR] = "write"]
               ELSE IF "lRotate" \in flag["root"]
                    THEN /\ cur' = chanRecv(logch).e
                         /\ pc' = [pc EXCEPT ![QR] = "rotate"]
                         /\ UNCHANGED writers
                    ELSE UNCHANGED <<cur, pc, writers>>
            /\ UNCHANGED wgDone
       ELSE /\ chClosed
            /\ wgDone' = TRUE
            /\ pc' = [pc EXCEPT ![QR] = "exit"]
            /\ UNCHANGED <<logch, cur, writers>>
    /\ UNCHANGED <<cfgv, closed, chClosed, bufv, loc, ncall, tmrv, fileOpen,
                   stderrOpen, wlog, lost, nfclose, writerOpen,
                   fsv, ghv>>

\* case _QEV_LOG: l.out.Write(e.buf) completes; l.putBuf(e.buf)
QrunnerWrite ==
    /\ pc[QR] = "write"
    /\ WriteTo(out["root"], cur.id, cur.buf)
    /\ putBuf(cur.buf)
    /\ writers' = writers \ {QR}
    /\ cur' = NoEv
    /\ pc' = [pc EXCEPT ![QR] = "recv"]
    /\ UNCHANGED <<cfgv, chv, loc, ncall, tmrv, fileOpen, stderrOpen,
                   nfclose, writerOpen, ghv>>

\* os.Remove of name.<i>.gz (a missing file is not an error)
Remove(G, i) == [G EXCEPT ![i] = NoGen]

\* os.Rename of name.<a>.gz to name.<b>.gz
Rename(G, a, b) == [G EXCEPT ![b] = G[a], ![a] = NoGen]

\* faulty variant: the loop of rotatefile running from the newest file up
RECURSIVE shiftUp(_, _, _)
shiftUp(G, i, n) ==
    IF n = 0 \/ i >= _MAX_LOGFILES THEN G
    ELSE shiftUp(IF G[i - 1].ex THEN Rename(G, i - 1, i) ELSE G, i + 1, n - 1)

\* faulty variant of rotatefile: renames name.0.gz first
rotatefileNewestFirst(G, max, n) == shiftUp(Remove(G, max - 1), 1, n)

\* rotatefile: the loop "for i := max - 1; i > 0; i -= 1", n iterations of
\* it: older is name.<i>.gz, old is name.<i-1>.gz, renamed if it exists
RECURSIVE shift(_, _, _)
shift(G, i, n) ==
    IF n = 0 \/ i <= 0 THEN G
    ELSE shift(IF G[i - 1].ex THEN Rename(G, i - 1, i) ELSE G, i - 1, n - 1)

\* rotatefile(fn, max) on the rotated files G, stopped after n iterations
\* of its loop (n = max - 1: it ran to its end)
rotatefile(G, max, n) == shift(Remove(G, max - 1), max - 1, n)

\* the steps of rotateLog that can fail, in the order they are made
Steps == <<"sync", "seek", "shift", "create", "gzip", "copy", "gzclose",
           "close", "rename", "truncate", "seek2">>

StepNo(st) == CHOOSE i \in 1..Len(Steps) : Steps[i] = st

\* the ways a rotation with retention max can fail: <<step, n>>, where for
\* the step "shift" n < 0 says os.Remove failed and n >= 0 says the loop
\* of rotatefile failed after n iterations
Fails(max) ==
    {<<Steps[i], 0>> : i \in 1..Len(Steps)}
        \cup {<<"shift", n>> : n \in (0 - 1)..(max - 2)}

\* rotateLog on the descriptor h with l.rot_n = max, from its start up to
\* the step f[1]: the files it leaves when that step fails (through the
\* labels fail1, fail2 and fail) or, for f[1] = "truncate", the files as
\* they are when fd.Truncate(0) is about to be called
rotateLog(h, max, f) ==
    LET st == f[1]
        done(s) == st = "none" \/ StepNo(s) < StepNo(st)
        \* fd.Seek(0, 0)
        p1 == IF done("seek") THEN 0 ELSE fpos[h]
        \* rotatefile(l.name, l.rot_n)
        g1 == IF done("shift") THEN rotatefile(gen, max, max - 1)
              ELSE IF st = "shift" /\ f[2] >= 0 THEN rotatefile(gen, max, f[2])
              ELSE gen
        \* os.OpenFile(gztmp, O_CREATE|O_WRONLY|O_TRUNC)
        t1 == done("create")
        \* io.Copy(gfd, fd): reads from the offset to the end of the file
        tc == IF done("copy") THEN SubSeq(fcont[h], p1 + 1, Len(fcont[h]))
              ELSE <<>>
        p2 == IF done("copy") THEN Len(fcont[h]) ELSE p1
        \* os.Rename(gztmp, gz)
        g2 == IF done("rename") THEN [g1 EXCEPT ![0] = [ex |-> TRUE, c |-> tc]]
              ELSE g1
        t2 == t1 /\ ~done("rename")
        \* fail1, fail2: os.Remove(gztmp)
        t3 == IF st \in {"gzip", "copy", "gzclose", "close", "rename"}
              THEN FALSE ELSE t2
    IN  [gen |-> g2, tmp |-> t3, cont |-> fcont,
         pos |-> [fpos EXCEPT ![h] = p2]]

\* the end of rotateLog on the descriptor h, fd.Truncate(0); fd.Seek(0, 0):
\* the files it leaves when it returns (f[1] = "none") or when one of the
\* two fails
rotateLogEnd(h, f) ==
    [gen |-> gen, tmp |-> tmp,
     cont |-> IF f[1] = "truncate" THEN fcont ELSE [fcont EXCEPT ![h] = <<>>],
     pos |-> IF f[1] = "none" THEN [fpos EXCEPT ![h] = 0] ELSE fpos]

\* the steps of rotateLog after name.0.gz has been made
LateSteps == {"truncate", "seek2"}

\* the destination's descriptor is open
outOpen ==
    /\ out["root"] = "file" => fileOpen
    /\ out["root"] = "stderr" => stderrOpen

\* rotateLog: sync, seek, rotatefile, and the live file compressed into
\* name.0.gz, all without an error
RotateCopy ==
    /\ pc[QR] = "rotate"
    /\ outOpen
    /\ LET r == rotateLog(out["root"], rot_n["root"], <<"truncate", 0>>) IN
        /\ gen' = r.gen
        /\ tmp' = r.tmp
        /\ fcont' = r.cont
        /\ fpos' = r.pos
    /\ pc' = [pc EXCEPT ![QR] = "rotcut"]
    /\ UNCHANGED <<cfgv, chv, bufv, loc, ncall, cur, tmrv, fileOpen,
                   stderrOpen, writers, wlog, lost, nfclose, writerOpen,
                   ghv>>

\* rotateLog: fd.Truncate(0) and fd.Seek(0, 0) succeed and it returns;
\* then l.relstart.Store(false)
RotateOk ==
    /\ pc[QR] = "rotcut"
    /\ outOpen
    /\ LET r == rotateLogEnd(out["root"], <<"none", 0>>) IN
        /\ gen' = r.gen
        /\ tmp' = r.tmp
        /\ fcont' = r.cont
        /\ fpos' = r.pos
    /\ wlog' = Append(wlog, [to |-> out["root"], id |-> cur.id,
                              rec |-> RotRec("rotated")])
    /\ relstart' = [relstart EXCEPT !["root"] = FALSE]
    /\ pc' = [pc EXCEPT ![QR] = "dprintf"]
    /\ UNCHANGED <<live, prio, prefix, flag, rot_n, out, chv, bufv, loc,
                   ncall, cur, tmrv, fileOpen, stderrOpen, writers, lost,
                   nfclose, writerOpen, ghv>>

\* rotateLog: the step f[1] fails; fail: fd.Close(); l.out = os.Stderr;
\* l.Error(errstr) up to its qwrite
RotateFail(f) ==
    /\ pc[QR] = IF f[1] \in LateSteps THEN "rotcut" ELSE "rotate"
    /\ f \in Fails(rot_n["root"])
    /\ LET r == IF f[1] \in LateSteps THEN rotateLogEnd(out["root"], f)
                ELSE rotateLog(out["root"], rot_n["root"], f) IN
        /\ gen' = r.gen
        /\ tmp' = r.tmp
        /\ fcont' = r.cont
        /\ fpos' = r.pos
    /\ CloseHandle(out["root"])
    /\ out' = [out EXCEPT !["root"] = "stderr"]
    /\ wlog' = Append(wlog, [to |-> out["root"], id |-> cur.id,
                              rec |-> RotRec("rotfail")])
    /\ DoLeveled(QR, "root", LOG_ERR, "err1", 0, <<>>)
    /\ UNCHANGED <<live, prio, prefix, flag, rot_n, chv, cur, tmrv, writers,
                   lost, ghv>>

\* rotateLog, fail: l.Error("switching to STDERR for future logs ..")
RotateFailNotice ==
    /\ pc[QR] = "err2call"
    /\ DoLeveled(QR, "root", LOG_ERR, "err2", 0, <<>>)
    /\ UNCHANGED <<live, prio, prefix, flag, rot_n, out, chv, cur, tmrv,
                   iov, ghv>>

\* rotateLog, fail: l.flag &= ^lClose; return; then l.relstart.Store(false)
RotateFailClear ==
    /\ pc[QR] = "clrflag"
    /\ flag' = [flag EXCEPT !["root"] = @ \ {"lClose"}]
    /\ relstart' = [relstart EXCEPT !["root"] = FALSE]
    /\ loc' = [loc EXCEPT ![QR] = NoLoc]
    /\ pc' = [pc EXCEPT ![QR] = "dprintf"]
    /\ UNCHANGED <<live, prio, prefix, rot_n, out, chv, bufv, ncall, cur,
                   tmrv, iov, ghv>>

\* case _QEV_TIMER: l.dprintf(0, LOG_INFO, "Log rotation complete. ...") up
\* to the moment l.out.Write is entered
QrunnerDprintf ==
    /\ pc[QR] = "dprintf"
    /\ \E b \in getBuf :
        /\ mem' = [mem EXCEPT ![b] = ofmt(QR, "root", "rotdone", LOG_INFO)]
        /\ pool' = pool \ {b}
        /\ loc' = [loc EXCEPT ![QR] = [NoLoc EXCEPT !.g = "root", !.buf = b]]
    /\ relstart' = ofmtRelstart("root")
    /\ ncall' = [ncall EXCEPT ![QR] = @ + 1]
    /\ writers' = writers \cup {QR}
    /\ pc' = [pc EXCEPT ![QR] = "dwrite"]
    /\ UNCHANGED <<live, prio, prefix, flag, rot_n, out, chv, cur, tmrv,
                   fileOpen, stderrOpen, wlog, lost, nfclose,
                   writerOpen, fsv, ghv>>

\* the rotation-complete record is written, its buffer returned and
\* time.AfterFunc(24*time.Hour, l.qtimer) arms the next timer
QrunnerRearm ==
    /\ pc[QR] = "dwrite"
    /\ WriteTo(out["root"], 0, loc[QR].buf)
    /\ putBuf(loc[QR].buf)
    /\ writers' = writers \ {QR}
    /\ loc' = [loc EXCEPT ![QR] = NoLoc]
    /\ cur' = NoEv
    /\ armed' = armed + 1
    /\ pc' = [pc EXCEPT ![QR] = "recv"]
    /\ UNCHANGED <<cfgv, chv, ncall, tsend, tpanic, nfired, nops,
                   fileOpen, stderrOpen, nfclose, writerOpen, ghv>>

(* ------------------------------------------------------------------ Next *)
\* arguments the application passes
Levels == {LOG_ERR}
SubPrios == {LOG_NONE}
SubPrefs == {<<"db">>}
Hours == {0}
\* the step at which a rotation fails
FailAt == {<<"sync", 0>>}
Keeps == {0}

Next ==
    \/ NewLoggerDprintf
    \/ NewLoggerStart
    \/ \E t \in Threads, g \in Loggers, s \in {"s1"} :
          \E pref \in SubPrefs, pr \in SubPrios : NewSub(t, g, s, pref, pr)
    \/ \E t \in Threads : Return(t)
    \/ \E t \in Threads, g \in Loggers, lv \in Levels : Leveled(t, g, lv)
    \/ \E t \in AllThreads : QwriteCheck(t)
    \/ \E t \in AllThreads : QwriteSend(t)
    \/ \E t \in Threads, g \in Loggers : CloseCall(t, g)
    \/ \E t \in Threads : CloseChan(t)
    \/ \E t \in Threads : CloseWait(t)
    \/ \E t \in Threads : CloseWrite(t)
    \/ \E t \in Threads : CloseFile(t)
    \/ \E t \in Threads, g \in Loggers, hh \in Hours, mx \in Keeps :
          EnableRotation(t, g, hh, 0, 0, mx)
    \/ \E t \in Threads : EnableRotationRead(t)
    \/ \E t \in Threads : EnableRotationArm(t)
    \/ TimerFire
    \/ TimerSend
    \/ QrunnerRecv
    \/ QrunnerWrite
    \/ RotateCopy
    \/ RotateOk
    \/ \E f \in FailAt : RotateFail(f)
    \/ RotateFailNotice
    \/ RotateFailClear
    \/ QrunnerDprintf
    \/ QrunnerRearm

Init == InitWith({"file", "writer"}, {LOG_INFO}, {<<>>}, {{}}, {{}})

Spec == Init /\ [][Next]_vars

(* Fatal and Panic on a logger with a caller's writer, beside leveled     *)
(* calls and Close of a second goroutine.                                  *)
NextFatal ==
    \/ NewLoggerDprintf
    \/ NewLoggerStart
    \/ \E t \in Threads, pref \in SubPrefs, pr \in SubPrios :
          NewSub(t, "root", "s1", pref, pr)
    \/ \E t \in Threads : Return(t)
    \/ \E t \in Threads, g \in Loggers, lv \in Levels : Leveled(t, g, lv)
    \/ \E t \in Threads, g \in Loggers : Fatal(t, g)
    \/ \E t \in Threads : QwriteCheck(t)
    \/ \E t \in Threads : QwriteSend(t)
    \/ \E t \in Threads : FatalClose(t)
    \/ \E t \in Threads : CloseCall(t, "root")
    \/ \E t \in Threads : CloseChan(t)
    \/ \E t \in Threads : CloseWait(t)
    \/ \E t \in Threads : CloseWrite(t)
    \/ \E t \in Threads : CloseFile(t)
    \/ QrunnerRecv
    \/ QrunnerWrite

InitFatal == InitWith({"writer"}, {LOG_INFO}, {<<>>}, {{}}, {{}})

SpecFatal == InitFatal /\ [][NextFatal]_vars

(* Relative timestamps: a file-backed logger created with Lreltime, its   *)
(* sub-logger, leveled calls and rotations.                                *)
NextRel ==
    \/ NewLoggerDprintf
    \/ NewLoggerStart
    \/ \E pref \in SubPrefs, pr \in SubPrios : NewSub("t1", "root", "s1", pref, pr)
    \/ Return("t1")
    \/ \E g \in Loggers, lv \in Levels : Leveled("t1", g, lv)
    \/ \E t \in AllThreads : QwriteCheck(t)
    \/ \E t \in AllThreads : QwriteSend(t)
    \/ \E hh \in Hours, mx \in Keeps : EnableRotation("t1", "root", hh, 0, 0, mx)
    \/ EnableRotationRead("t1")
    \/ EnableRotationArm("t1")
    \/ TimerFire
    \/ TimerSend
    \/ QrunnerRecv
    \/ QrunnerWrite
    \/ RotateCopy
    \/ RotateOk
    \/ \E f \in FailAt : RotateFail(f)
    \/ RotateFailNotice
    \/ RotateFailClear
    \/ QrunnerDprintf
    \/ QrunnerRearm

InitRel == InitWith({"file"}, {LOG_INFO}, {<<>>}, {{"Lreltime"}}, {{}})

SpecRel == InitRel /\ [][NextRel]_vars

(* Prefixes: roots with and without a prefix, sub-loggers and their own   *)
(* sub-loggers created with and without one.                               *)
RootPrefs == {<<>>, <<"svc">>}
ChildPrefs == {<<>>, <<"db">>}

NextPrefix ==
    \/ NewLoggerDprintf
    \/ NewLoggerStart
    \/ \E g \in Loggers, s \in Subs, pref \in ChildPrefs :
          NewSub("t1", g, s, pref, LOG_NONE)
    \/ Return("t1")
    \/ \E g \in Loggers, lv \in Levels : Leveled("t1", g, lv)
    \/ QwriteCheck("t1")
    \/ QwriteSend("t1")
    \/ QrunnerRecv
    \/ QrunnerWrite

InitPrefix == InitWith({"writer"}, {LOG_INFO}, RootPrefs, {{}}, {{}})

SpecPrefix == InitPrefix /\ [][NextPrefix]_vars

(* Flags: roots created with every combination of the time-stamp flags,   *)
(* and their sub-loggers.                                                  *)
FlagArgs == SUBSET {"Ldate", "Ltime", "Lmicroseconds", "Lreltime"}

NextFlags ==
    \/ NewLoggerDprintf
    \/ NewLoggerStart
    \/ \E g \in Loggers, s \in Subs, pref \in SubPrefs :
          NewSub("t1", g, s, pref, LOG_NONE)
    \/ Return("t1")
    \/ \E g \in Loggers, lv \in Levels : Leveled("t1", g, lv)
    \/ QwriteCheck("t1")
    \/ QwriteSend("t1")
    \/ QrunnerRecv
    \/ QrunnerWrite

InitFlags == InitWith({"file", "writer"}, {LOG_INFO}, {<<>>}, FlagArgs, {{}})

SpecFlags == InitFlags /\ [][NextFlags]_vars

(* Messages submitted through the adapter returned by StdLogger(), beside  *)
(* leveled calls, by two goroutines.                                       *)
NextStd ==
    \/ NewLoggerDprintf
    \/ NewLoggerStart
    \/ \E t \in Threads : Return(t)
    \/ \E t \in Threads : StdWrite(t, "root")
    \/ \E t \in Threads : StdReuse(t)
    \/ \E t \in Threads : Leveled(t, "root", LOG_INFO)
    \/ \E t \in Threads : QwriteCheck(t)
    \/ \E t \in Threads : QwriteSend(t)
    \/ QrunnerRecv
    \/ QrunnerWrite

InitStd == InitWith({"writer"}, {LOG_INFO}, {<<>>}, {{}}, {{}})

SpecStd == InitStd /\ [][NextStd]_vars

(* Rotation of a file-backed logger over every set of rotated files left   *)
(* by an earlier run and with every retention count.                       *)
OldGens == SUBSET (0..MaxGen)
KeepsRot == 0..MaxGen

NextRotate ==
    \/ NewLoggerDprintf
    \/ NewLoggerStart
    \/ Return("t1")
    \/ \E lv \in Levels : Leveled("t1", "root", lv)
    \/ \E mx \in KeepsRot :
          \* the application enables rotation once
          rot_n["root"] = 0 /\ EnableRotation("t1", "root", 0, 0, 0, mx)
    \/ EnableRotationRead("t1")
    \/ EnableRotationArm("t1")
    \/ \E t \in AllThreads : QwriteCheck(t)
    \/ \E t \in AllThreads : QwriteSend(t)
    \/ TimerFire
    \/ TimerSend
    \/ QrunnerRecv
    \/ QrunnerWrite
    \/ RotateCopy
    \/ RotateOk
    \/ \E f \in FailAt : RotateFail(f)
    \/ RotateFailNotice
    \/ RotateFailClear
    \/ QrunnerDprintf
    \/ QrunnerRearm

InitRotate == InitWith({"file"}, {LOG_INFO}, {<<>>}, {{}}, OldGens)

SpecRotate == InitRotate /\ [][NextRotate]_vars

(* A file-backed logger whose rotations fail, at every step that can.      *)
AllFails == Fails(_MAX_LOGFILES)

NextDegrade ==
    \/ NewLoggerDprintf
    \/ NewLoggerStart
    \/ Return("t1")
    \/ \E lv \in Levels : Leveled("t1", "root", lv)
    \/ \E mx \in Keeps :
          \* the application enables rotation once
          rot_n["root"] = 0 /\ EnableRotation("t1", "root", 0, 0, 0, mx)
    \/ EnableRotationRead("t1")
    \/ EnableRotationArm("t1")
    \/ \E t \in AllThreads : QwriteCheck(t)
    \/ \E t \in AllThreads : QwriteSend(t)
    \/ TimerFire
    \/ TimerSend
    \/ QrunnerRecv
    \/ QrunnerWrite
    \/ RotateCopy
    \/ RotateOk
    \/ \E f \in AllFails : RotateFail(f)
    \/ RotateFailNotice
    \/ RotateFailClear
    \/ QrunnerDprintf
    \/ QrunnerRearm

InitDegrade == InitWith({"file"}, {LOG_INFO}, {<<>>}, {{}}, {{0, 1}})

SpecDegrade == InitDegrade /\ [][NextDegrade]_vars

(* EnableRotation with times inside and outside the valid ranges, on     *)
(* loggers with a backing file and with a caller's writer.                 *)
Times == {<<hh, 0, 0>> : hh \in {0 - 1, 0, 23, 24}}
            \cup {<<0, mm, 0>> : mm \in {0 - 1, 59, 60}}
            \cup {<<23, 59, ss>> : ss \in {0 - 1, 59, 60}}

NextEnable ==
    \/ NewLoggerDprintf
    \/ NewLoggerStart
    \/ \E pref \in SubPrefs, pr \in SubPrios : NewSub("t1", "root", "s1", pref, pr)
    \/ Return("t1")
    \/ \E g \in Loggers, tm \in Times, mx \in Keeps :
          EnableRotation("t1", g, tm[1], tm[2], tm[3], mx)
    \/ EnableRotationRead("t1")
    \/ EnableRotationArm("t1")
    \/ \E t \in AllThreads : QwriteCheck(t)
    \/ \E t \in AllThreads : QwriteSend(t)
    \/ TimerFire
    \/ TimerSend
    \/ QrunnerRecv
    \/ QrunnerWrite
    \/ RotateCopy
    \/ RotateOk
    \/ \E f \in FailAt : RotateFail(f)
    \/ RotateFailNotice
    \/ RotateFailClear
    \/ QrunnerDprintf
    \/ QrunnerRearm

InitEnable == InitWith({"file", "writer"}, {LOG_INFO}, {<<>>}, {{}}, {{}})

SpecEnable == InitEnable /\ [][NextEnable]_vars

(* The priority filter: one application goroutine, every priority a logger *)
(* can be created with, every level of the leveled calls.                  *)
NextFilter ==
    \/ NewLoggerDprintf
    \/ NewLoggerStart
    \/ \E pr \in Priorities : NewSub("t1", "root", "s1", <<>>, pr)
    \/ Return("t1")
    \/ \E g \in Loggers, lv \in LeveledLevels :
          ncall["t1"] < MaxRecs /\ Leveled("t1", g, lv)
    \/ QwriteCheck("t1")
    \/ QwriteSend("t1")
    \/ CloseCall("t1", "root")
    \/ CloseChan("t1")
    \/ CloseWait("t1")
    \/ CloseWrite("t1")
    \/ CloseFile("t1")
    \/ QrunnerRecv
    \/ QrunnerWrite

InitFilter == InitWith({"writer"}, Priorities, {<<>>}, {{}}, {{}})

SpecFilter == InitFilter /\ [][NextFilter]_vars

(* ------------------------------------------------------------ properties *)
\* the entries of the write history
Written == 1..Len(wlog)

\* the records the application's goroutines have had enqueued
AppRecords == {id \in 1..Len(enq) : enq[id].kind = "log" /\ enq[id].t \in Threads}

\* the number of final "closed" records at the destination
NFinal == Cardinality({i \in Written : wlog[i].rec.kind = "closed"})

\* every enqueued event has been taken off the queue and fully processed
Drained == logch = <<>> /\ cur = NoEv

\* the pc values with which a Close call begins
CloseEntry == {"subcret", "cnop", "closech"}

\* C1: no goroutine ever sends on the event queue after it was closed, so
\* neither a logging goroutine nor a rotation timer panics on the send.
C1_NoSendOnClosedQueue ==
    /\ \A t \in AllThreads : pc[t] # "panic_send"
    /\ ~tpanic

\* C2: the writer goroutine applies events in the order they were
\* enqueued: effects appear at the destination in increasing order of
\* enqueueing, no event still waiting was enqueued before an applied one,
\* and each effect is that of its event (the record that was enqueued, or
\* a rotation for a timer event).
C2_AppliedInEnqueueOrder ==
    /\ \A i, j \in Written :
          (i < j /\ wlog[i].id > 0 /\ wlog[j].id > 0) => wlog[i].id < wlog[j].id
    /\ \A i \in Written, q \in 1..Len(logch) : wlog[i].id < logch[q].id
    /\ \A i \in Written : cur.id > 0 => wlog[i].id <= cur.id
    /\ \A i \in Written :
          wlog[i].id > 0 =>
             IF enq[wlog[i].id].kind = "timer"
             THEN wlog[i].rec.kind \in {"rotated", "rotfail"}
             ELSE wlog[i].rec = enq[wlog[i].id]

\* two records of different goroutines and different loggers, both
\* enqueued, have been written one after the other
C2_Witness ==
    \E i, j \in Written :
        /\ i < j /\ wlog[i].id > 0 /\ wlog[j].id > 0
        /\ wlog[i].rec.kind = "log" /\ wlog[j].rec.kind = "log"
        /\ wlog[i].rec.t # wlog[j].rec.t
        /\ wlog[i].rec.g # wlog[j].rec.g

\* C3 (as the claim states it): while the logger stays open, every record
\* the application had enqueued is waiting in the queue, being written, or
\* has been written to the destination exactly once and as it was
\* formatted; none is lost.
C3_ExactlyOneCompleteWrite ==
    ~closed =>
      \A id \in AppRecords :
        LET at == {i \in Written : wlog[i].id = id} IN
        /\ Cardinality(at) <= 1
        /\ \A i \in at : wlog[i].rec = enq[id]
        /\ \/ at # {}
           \/ \E q \in 1..Len(logch) : logch[q].id = id
           \/ cur.id = id

\* C4: at any moment at most one goroutine is inside a write to the
\* destination (the constructor's startup record, the writer goroutine's
\* records, Close's final record).
C4_OneWriterAtATime == Cardinality(writers) <= 1

\* Close is writing its final record after records of an application call
\* and of a completed rotation were written by the writer goroutine
C4_Witness ==
    /\ \E t \in Threads : writers = {t} /\ pc[t] = "cwrite"
    /\ \E i \in Written : wlog[i].rec.kind = "rotdone"
    /\ \E i \in Written : wlog[i].rec.kind = "log" /\ wlog[i].id > 0
    /\ \E i \in Written : wlog[i].rec.kind = "startup"

\* C5 (as the claim states it): whenever a Close call on the root has
\* returned, every event enqueued before has been processed.
C5_CloseReturnsAfterDrain ==
    \A t \in Threads : pc[t] \in {"cret", "cnop"} => Drained

\* C6 (as the claim states it): the queue is closed at most once and never
\* twice (no panic), the file is closed at most once, and when the closing
\* call has returned exactly one final record is at the destination, behind
\* every queued record.
C6_CloseIsIdempotent ==
    /\ nclosech <= 1
    /\ nfclose <= 1
    /\ NFinal <= 1
    /\ \A t \in Threads : pc[t] # "panic_close"
    /\ \A t \in Threads :
          pc[t] = "cret" =>
             /\ nclosech = 1
             /\ NFinal = 1
             /\ wlog[Len(wlog)].rec.kind = "closed"
             /\ Drained

\* C7: a Close call on a sub-logger returns at once and changes nothing of
\* the shared state: the queue stays open, the writer goroutine keeps
\* running, the destination and every logger's fields stay as they were;
\* the closed flag is only ever set by a Close call on the root.
C7_SubLoggerCloseLeavesAllAlone ==
    [][ /\ \A t \in Threads :
             (pc[t] = "idle" /\ pc'[t] \in CloseEntry /\ loc'[t].g \in Subs) =>
                /\ pc'[t] = "subcret"
                /\ UNCHANGED <<cfgv, chv, bufv, ncall, cur, armed, tsend, tpanic,
                             nfired, iov, enq, nclosech, cdone, made>>
                /\ \A u \in AllThreads \ {t} : pc'[u] = pc[u]
        /\ closed' # closed =>
             \E t \in Threads : pc'[t] = "closech" /\ loc'[t].g = "root"
      ]_vars

\* a record a sub-logger formatted after its own Close had returned is at
\* the destination
C7_Witness ==
    \E i \in Written :
        /\ wlog[i].rec.kind = "log" /\ wlog[i].rec.sc
        /\ wlog[i].rec.g \in Subs /\ wlog[i].id > 0

\* C8: a leveled call made after a Close of the root has returned never
\* reaches the send on the queue (so it cannot block or panic), its record
\* is never enqueued and never arrives at the destination.
C8_NothingAfterClose ==
    /\ \A t \in AllThreads :
          pc[t] \in {"send", "panic_send"} => ~mem[loc[t].buf].ac
    /\ \A id \in 1..Len(enq) : ~enq[id].ac
    /\ \A q \in 1..Len(logch) : logch[q].ty = "LOG" => ~mem[logch[q].buf].ac
    /\ \A i \in Written : wlog[i].rec.kind = "log" => ~wlog[i].rec.ac

\* a call on a sub-logger, begun after the root's Close had returned and
\* the writer goroutine had ended, has returned with its record dropped
C8_Witness ==
    \E t \in Threads :
        /\ pc[t] = "dropped" /\ loc[t].g \in Subs
        /\ cdone /\ pc[QR] = "exit"
        /\ \E u \in Threads \ {t} : pc[u] = "cret"

Substitute(g) == IF g = "root" THEN LOG_WARN ELSE prio[made[g].by]

\* C10 (as the claim states it): a logger constructed with the priority
\* NONE never logs: no record of such a logger is ever enqueued.
C10_NoneNeverLogs ==
    \A id \in 1..Len(enq) :
        enq[id].kind = "log" => made[enq[id].g].arg # LOG_NONE

\* C10 (amended): NONE given at construction is not kept: the root takes
\* WARN and a sub-logger its parent's priority, so no logger holds NONE, and
\* a leveled call on such a logger is filtered exactly below the
\* substituted priority.
C10_NoneIsSubstituted ==
    /\ \A g \in live :
          /\ prio[g] > LOG_NONE
          /\ made[g].arg = LOG_NONE => prio[g] = Substitute(g)
    /\ \A t \in Threads :
          (loc[t].g \in live /\ made[loc[t].g].arg = LOG_NONE
                /\ loc[t].cont = "user") =>
             /\ pc[t] = "filtered" => loc[t].lv < Substitute(loc[t].g)
             /\ pc[t] \in {"qwrite", "send", "sent", "dropped"} =>
                    loc[t].lv >= Substitute(loc[t].g)

\* a sub-logger created with NONE, under a root created with NONE, has
\* enqueued a record
C10_Witness ==
    \E t \in Threads :
        /\ pc[t] = "sent" /\ loc[t].g = "s1"
        /\ made["s1"].arg = LOG_NONE /\ made["root"].arg = LOG_NONE

\* a Fatal call of goroutine t has had its record accepted by the queue
FatalAccepted(t) ==
    \E id \in 1..Len(enq) : enq[id].kind = "fatal" /\ enq[id].t = t

\* C11 (as the claim states it): when a Fatal call whose record the open
\* logger accepted reaches panic(s), that record (message and backtrace) is
\* at the destination.
C11_FatalWritesBeforePanic ==
    \A t \in Threads :
        (pc[t] = "fpanic" /\ FatalAccepted(t)) =>
            \E i \in Written : wlog[i].rec.kind = "fatal" /\ wlog[i].rec.t = t

\* the entries of the write history that are rotations
Rotations == {i \in Written : wlog[i].rec.kind \in {"rotated", "rotfail"}}

\* C12 (as the claim states it): with relative time, the first record at
\* the destination carries an absolute header and every later record
\* written before any rotation, of the root or of a sub-logger, carries a
\* +duration token.
C12_OnlyFirstRecordAbsolute ==
    \A i \in Written :
        (\A r \in Rotations : i < r) =>
            wlog[i].rec.hdr = IF i = 1 THEN "abs" ELSE "rel"

\* C13 (as the claim states it): with relative time, the record written
\* right after a rotation carries an absolute header.
C13_AbsoluteAfterRotation ==
    \A r \in Rotations :
        (wlog[r].rec.kind = "rotated" /\ r < Len(wlog)) =>
            wlog[r + 1].rec.hdr = "abs"

\* a prefix string without its brackets: "[a.b] " gives a.b
Inner(p) == SubSeq(p, 2, Len(p) - 1)

\* the prefix the composition rule gives sub-logger s, created with a
\* non-empty prefix argument
Composed(s) ==
    IF prefix[made[s].by] # <<>>
    THEN <<"[">> \o Inner(prefix[made[s].by]) \o <<".">> \o made[s].pref \o <<"] ">>
    ELSE <<"[">> \o made[s].pref \o <<"] ">>

\* C14 (as the claim states it): every record of a sub-logger created with
\* a non-empty prefix carries "[parent.child] " when its parent has a
\* prefix and "[child] " when it has none.
C14_RecordsCarryComposedPrefix ==
    \A i \in Written :
        LET r == wlog[i].rec IN
        (r.kind = "log" /\ r.g \in Subs /\ made[r.g].pref # <<>>) =>
            r.pfx = Composed(r.g)

\* C15 (as the claim states it): a sub-logger created with an empty prefix
\* argument has its parent's prefix: Prefix() returns it and its records
\* carry it.
C15_EmptyPrefixInheritsParents ==
    /\ \A s \in Subs \cap live :
          made[s].pref = <<>> => prefix[s] = prefix[made[s].by]
    /\ \A i \in Written :
          LET r == wlog[i].rec IN
          (r.kind = "log" /\ r.g \in Subs /\ made[r.g].pref = <<>>) =>
              r.pfx = prefix[made[r.g].by]

\* C16: a call of EnableRotation on a logger that has no backing file of
\* its own, or with an hour, minute or second out of range, returns an
\* error and changes nothing: no flag, no retention count, no timer, no
\* record.
C16_RejectedEnableRotationChangesNothing ==
    [][ \A t \in Threads :
          (pc[t] = "idle" /\ loc'[t].hms # <<>>) =>
             LET g == loc'[t].g
                 a == loc'[t].hms
             IN  ( \/ "lClose" \notin flag[g]
                   \/ a[1] < 0 \/ a[1] > 23
                   \/ a[2] < 0 \/ a[2] > 59
                   \/ a[3] < 0 \/ a[3] > 59 ) =>
                      /\ pc'[t] = "eret"
                      /\ UNCHANGED <<cfgv, chv, bufv, ncall, cur, armed,
                                     tsend, tpanic, nfired, iov, ghv>>
      ]_vars

\* EnableRotation has returned its error for hour 24 on a logger with a
\* backing file, and for a valid time on a logger with a caller's writer
C16_Witness ==
    \E t \in Threads :
        /\ pc[t] = "eret"
        /\ \/ loc[t].hms[1] = 24 /\ "lClose" \in flag[loc[t].g]
           \/ validTime(loc[t].hms[1], loc[t].hms[2], loc[t].hms[3])
                /\ out["root"] = "writer"

\* C17: a successful rotation with retention N (= rot_n) deletes the old
\* name.<N-1>.gz, moves every existing name.<i>.gz with i < N-1 to
\* name.<i+1>.gz and leaves no file where the one before was missing,
\* makes name.0.gz from what the live file held, leaves the live file
\* empty at offset 0, and touches no name.<j>.gz with j >= N.
C17_RotationShiftsGenerations ==
    [][ /\ (pc[QR] = "rotate" /\ pc'[QR] = "rotcut") =>
          LET N == rot_n["root"]
              h == out["root"]
          IN  /\ gen[N - 1].ex =>
                    \A j \in GenIdx : j > 0 => gen'[j].c # gen[N - 1].c
              /\ \A i \in GenIdx : (i < N - 1 /\ gen[i].ex) => gen'[i + 1] = gen[i]
              /\ \A i \in 1..(N - 1) : ~gen[i - 1].ex => ~gen'[i].ex
              /\ gen'[0] = [ex |-> TRUE, c |-> fcont[h]]
              /\ \A j \in GenIdx : j >= N => gen'[j] = gen[j]
        /\ (pc[QR] = "rotcut" /\ pc'[QR] = "dprintf") =>
              /\ fcont'[out["root"]] = <<>>
              /\ fpos'[out["root"]] = 0
              /\ gen' = gen
      ]_vars

\* a first rotation with retention 3 has succeeded where name.0.gz,
\* name.1.gz and name.3.gz of an earlier run existed
C17_Witness ==
    /\ pc[QR] = "dprintf"
    /\ wlog[Len(wlog)].rec.kind = "rotated"
    /\ rot_n["root"] = 3
    /\ gen[3] = OldGen(3)
    /\ gen[2] = OldGen(1)
    /\ gen[1] = OldGen(0)
    /\ Len(gen[0].c) >= 2
    /\ fcont["file"] = <<>>
    /\ out["root"] = "file"

\* a rotation has failed
Failed == \E i \in Written : wlog[i].rec.kind = "rotfail"

\* qrunner is not inside rotateLog
RotationReturned == pc[QR] \in {"recv", "write", "dprintf", "dwrite", "exit"}

\* the records of application goroutines enqueued after rotateLog switched
\* to the fallback stream and enqueued its own error record
AfterFailure ==
    {id \in AppRecords : \E j \in 1..(id - 1) : enq[j].kind = "log" /\ enq[j].t = QR}

\* C18: when a step of a rotation has failed and the rotation has returned,
\* no temporary file remains and the destination is the fallback stream,
\* and no record accepted afterwards meets an error when it is written.
C18_FailedRotationFallsBack ==
    /\ (Failed /\ RotationReturned) => (~tmp /\ out["root"] = "stderr")
    /\ \A id \in AfterFailure : id \notin lost

\* C19: once a rotation has failed, no later timer event makes rotateLog
\* run again, and the destination stays the fallback stream.
C19_NoRotationAfterFailure ==
    /\ \A i \in Rotations :
          wlog[i].rec.kind = "rotfail" => \A j \in Rotations : j <= i
    /\ Failed => out["root"] = "stderr"

\* C20: the step of Close that closes the destination closes neither the
\* caller's writer nor the fallback stream: what it closes is the file the
\* logger opened itself, while that file is still the destination.
C20_CloseClosesOnlyItsOwnFile ==
    [][ \A t \in Threads :
          (pc[t] = "cfclose" /\ pc'[t] # "cfclose") =>
              /\ writerOpen' = writerOpen
              /\ stderrOpen' = stderrOpen
              /\ fileOpen' # fileOpen => out["root"] = "file"
      ]_vars

\* C21: once a failed rotation has made os.Stderr the destination, the
\* logger never closes os.Stderr, neither in Close nor in a later rotation.
C21_FallbackNeverClosed == Failed => stderrOpen

\* the failed rotations that have been recorded
Failures == {i \in Written : wlog[i].rec.kind = "rotfail"}

\* the records of rotateLog's two l.Error calls that os.Stderr has received
FailNotices ==
    {i \in Written : /\ wlog[i].rec.kind = "log"
                     /\ wlog[i].rec.t = QR
                     /\ wlog[i].to = "stderr"}

\* C22: for each failed rotation the error record and the fallback notice
\* are written to os.Stderr: once the rotation has returned and the queue
\* holds nothing more, both are there.
C22_FailureIsReported ==
    (RotationReturned /\ Drained) =>
        Cardinality(FailNotices) >= 2 * Cardinality(Failures)

\* the rotation that ran last before the effect i was recorded
LastRotation(i) == Max({r \in Rotations : r < i})

\* C23: a rotation-complete record is written only after a rotation that
\* succeeded; a failed rotation is followed by no completion record.
C23_CompletionOnlyOnSuccess ==
    \A i \in Written :
        wlog[i].rec.kind = "rotdone" =>
            wlog[LastRotation(i)].rec.kind = "rotated"

\* C24: while qrunner is inside rotateLog no goroutine is inside a Write on
\* the destination, and when the live file is truncated name.0.gz holds
\* every record that was written to it: none is lost to the truncation.
C24_RotationExcludesWrites ==
    [][ /\ pc[QR] \in {"rotate", "rotcut"} => writers = {}
        /\ (pc[QR] = "rotcut" /\ pc'[QR] = "dprintf") =>
              gen[0].c = fcont[out["root"]]
      ]_vars

\* a rotation has succeeded on a backing file that held the startup record
\* and records of the application
C24_Witness ==
    /\ pc[QR] = "dprintf"
    /\ wlog[Len(wlog)].rec.kind = "rotated"
    /\ wlog[Len(wlog)].to = "file"
    /\ \E k \in 1..Len(gen[0].c) :
          gen[0].c[k] > 0 /\ wlog[gen[0].c[k]].rec.kind = "log"
    /\ fcont["file"] = <<>>

\* the buffers the events in the queue and qrunner's event refer to
Queued == ({logch[i].buf : i \in 1..Len(logch)} \cup {cur.buf}) \ {0}

\* C25: a buffer a log call took from the pool goes back to it exactly
\* once: when qrunner has written it (it is not in the pool before), or
\* when qwrite discards its record because the logger is closed; and no
\* buffer a queued event refers to is in the pool.
C25_BuffersReturnedOnce ==
    [][ /\ Queued \cap pool = {}
        /\ (pc[QR] = "write" /\ pc'[QR] # "write") =>
              (cur.buf \notin pool /\ cur.buf \in pool')
        /\ \A t \in AllThreads :
              (pc[t] = "qwrite" /\ pc'[t] \notin {"qwrite", "send"}) =>
                  loc[t].buf \in pool'
      ]_vars

\* C26: no logger, root or sub-logger, has Lreltime in its flags together
\* with Ldate or Ltime, and Lmicroseconds given with Lreltime is kept.
C26_ReltimeExcludesDateTime ==
    \A g \in live :
        /\ "Lreltime" \in flag[g] => flag[g] \cap {"Ldate", "Ltime"} = {}
        /\ {"Lreltime", "Lmicroseconds"} \subseteq made["root"].fl =>
              "Lmicroseconds" \in flag[g]

\* a sub-logger of a root that was created with Ldate, Ltime,
\* Lmicroseconds and Lreltime has written a record
C26_Witness ==
    /\ made["root"].fl = {"Ldate", "Ltime", "Lmicroseconds", "Lreltime"}
    /\ \E i \in Written : wlog[i].rec.kind = "log" /\ wlog[i].rec.g \in Subs
    /\ \E s \in Subs \cap live : {"Lreltime", "Lmicroseconds"} \subseteq flag[s]

\* C27: qrunner never stands at a send on its own queue while the queue is
\* full (no other goroutine receives from it, so it would wait for ever and
\* no queued event would be processed again).
C27_WriterNeverBlocksOnOwnQueue ==
    pc[QR] = "send" => (Len(logch) < NumCPU \/ chClosed)

\* C28: at most one rotation timer is pending at any time.
C28_AtMostOneTimerPending == armed <= 1

\* C29: the bytes written for a message submitted through the adapter's
\* Write(b) are the contents b had when Write was called, whatever the caller
\* does with b after Write has returned.
C29_AdapterWritesBytesOfCall ==
    \A i \in Written :
        (wlog[i].id > 0 /\ enq[wlog[i].id].kind = "std") =>
            wlog[i].rec = enq[wlog[i].id]

\* the timer events that qrunner has taken from the queue and is done with
TimerEventsDone ==
    {id \in 1..Len(enq) :
        /\ enq[id].kind = "timer"
        /\ \A q \in 1..Len(logch) : logch[q].id # id
        /\ cur.id # id}

\* C30: every timer armed by an EnableRotation call that returned nil, on the
\* root or on a sub-logger of a file-backed root, makes rotateLog run on the
\* backing file when qrunner processes its event on a logger that is open.
C30_ArmedTimerLeadsToRotation ==
    ~closed =>
        \A id \in TimerEventsDone :
            \E i \in Written : /\ wlog[i].id = id
                               /\ wlog[i].rec.kind \in {"rotated", "rotfail"}

====
